---------------------------- MODULE Spec2Model ----------------------------
(***************************************************************************)
(* Model of dashboard.py: the number normalizer, the structural            *)
(* fingerprint used by find_all, parse_html_to_dataframe, the rate lookup  *)
(* and the Streamlit script show_dashboard with its session state.         *)
(*                                                                         *)
(* Values of mixed Python type are records with a kind field k, so that    *)
(* None, NaN, NaT, numbers and timestamps can be compared with each other. *)
(* Money is an integer; a conversion rate r is the integer r * RateDen, and *)
(* every converted amount is held in units of 1 / RateDen.                 *)
(***************************************************************************)
EXTENDS Integers, Sequences, FiniteSets, TLC

VARIABLES
  pc,            \* how far the run has come
  text,          \* argument of clean_and_format_number
  num1,          \* clean_and_format_number(text)
  num2,          \* clean_and_format_number(num1)
  classAttr,     \* class attribute of a div, as its list of tokens
  matched,       \* whether find_all selects that div
  html_content,  \* argument of parse_html_to_dataframe
  result,        \* what parse_html_to_dataframe did: returned a frame or raised
  session,       \* st.session_state
  view           \* what the last run of the script computed and displayed

vars == <<pc, text, num1, num2, classAttr, matched, html_content, result, session, view>>

numVars == <<text, num1, num2>>
fpVars == <<classAttr, matched>>
parseVars == <<html_content, result>>
dashVars == <<session, view>>

(***************************************************************************)
(* Bounds.                                                                 *)
(***************************************************************************)
MaxLen == 3          \* longest text given to the number normalizer
MaxClassTokens == 4  \* most tokens in a class attribute
MaxRecords == 3      \* most div elements in a pasted document
MaxRows == 2         \* most rows of a typed dataset given to the metrics
MaxPaste == 1        \* most div elements in a document pasted during a session
RateDen == 2         \* conversion rates are multiples of 1 / RateDen

(***************************************************************************)
(* Python values.                                                          *)
(***************************************************************************)
None == [k |-> "None", v |-> 0]
NaN == [k |-> "NaN", v |-> 0]
Num(n) == [k |-> "num", v |-> n]
Str(s) == [k |-> "str", v |-> s]

NaT == [k |-> "NaT", day |-> 0, tod |-> 0]
NoDate == [k |-> "None", day |-> 0, tod |-> 0]
Timestamp(d, t) == [k |-> "ts", day |-> d, tod |-> t]

Range(s) == {s[i] : i \in 1..Len(s)}

SeqsUpTo(S, n) == UNION {[1..m -> S] : m \in 0..n}

(***************************************************************************)
(* clean_and_format_number                                                 *)
(***************************************************************************)
\* The symbols a text is made of: three that the substitution removes, the
\* minus sign, two digits and a letter that is not part of a number.
Symbols == {"$", ",", "+", "-", "0", "1", "x"}

DigitChars == <<"0", "1", "2", "3", "4", "5", "6", "7", "8", "9">>

IsDigit(c) == \E i \in 1..10 : DigitChars[i] = c

DigitVal(c) == (CHOOSE i \in 1..10 : DigitChars[i] = c) - 1

\* re.sub(r'[$\s,¥+%]|CHF|≈|lots', '', s): the symbols removed from the text.
Removed == {"$", ",", "+", " ", "%", "CHF", "lots"}

ReSub(s) == SelectSeq(s, LAMBDA c : c \notin Removed)

RECURSIVE DigitsValue(_)
DigitsValue(s) ==
  IF s = <<>> THEN 0
  ELSE 10 * DigitsValue(SubSeq(s, 1, Len(s) - 1)) + DigitVal(s[Len(s)])

AllDigits(s) == s # <<>> /\ \A i \in 1..Len(s) : IsDigit(s[i])

\* pd.to_numeric(s, errors='coerce') on a string: an optional minus sign and
\* at least one digit give the number, anything else (the empty string too)
\* gives NaN.
ToNumeric(s) ==
  IF AllDigits(s) THEN Num(DigitsValue(s))
  ELSE IF s # <<>> /\ s[1] = "-" /\ AllDigits(Tail(s)) THEN Num(0 - DigitsValue(Tail(s)))
  ELSE NaN

RECURSIVE NatStr(_)
NatStr(n) ==
  IF n < 10 THEN <<DigitChars[n + 1]>>
  ELSE NatStr(n \div 10) \o <<DigitChars[(n % 10) + 1]>>

\* str(text): a string is itself, a number is its decimal form, NaN is 'nan'.
PyStr(x) ==
  CASE x.k = "str" -> x.v
    [] x.k = "num" -> IF x.v < 0 THEN <<"-">> \o NatStr(0 - x.v) ELSE NatStr(x.v)
    [] x.k = "NaN" -> <<"n", "a", "n">>
    [] OTHER -> <<"N", "o", "n", "e">>

\* `not text`: None, the empty string and the number zero are falsy; NaN
\* is truthy.
Falsy(x) ==
  \/ x.k = "None"
  \/ x.k = "str" /\ x.v = <<>>
  \/ x.k = "num" /\ x.v = 0

clean_and_format_number(x) ==
  IF Falsy(x) THEN None
  ELSE ToNumeric(ReSub(PyStr(x)))

Texts == {None} \cup {Str(s) : s \in SeqsUpTo(Symbols, MaxLen)}

(***************************************************************************)
(* The structural fingerprint of find_all                                  *)
(***************************************************************************)
ClassTokens == {"border-grey-300", "border-b", "last-of-type:border-none", "flex"}

\* The three literals of the pattern, in the order the pattern has them.
Fingerprint == <<"border-grey-300", "border-b", "last-of-type:border-none">>

\* Whether a class token has a literal of the pattern as a substring. No
\* token of ClassTokens contains two of the literals, nor one that starts in
\* it and ends in the next token.
Contains(tok, lit) == tok = lit

\* re.compile(r'border-grey-300.*border-b.*last-of-type:border-none').search
\* on one string made of the tokens s: the three literals in that order.
PatternSearch(s) ==
  \E i, j, l \in 1..Len(s) :
     /\ i < j /\ j < l
     /\ Contains(s[i], Fingerprint[1])
     /\ Contains(s[j], Fingerprint[2])
     /\ Contains(s[l], Fingerprint[3])

\* BeautifulSoup matches class_ against each token of the attribute, then
\* against the attribute as one space-joined string.
ClassMatches(cls) ==
  \/ \E i \in 1..Len(cls) : PatternSearch(<<cls[i]>>)
  \/ PatternSearch(cls)

ClassAttrs == SeqsUpTo(ClassTokens, MaxClassTokens)

(***************************************************************************)
(* format_close_date                                                       *)
(***************************************************************************)
\* The day date.today() returns.
Today == 3

\* A date text is described by what the function looks at: whether it is
\* the empty string, whether it contains 'ago', and which layout it has:
\* "exact" for '%d %b %Y, %I:%M %p', "generic" for another layout that
\* pd.to_datetime reads, "bad" for none. day and tod (0 midnight, 1 later
\* in the day) are the point in time the text writes.
DateText(e, a, l, d, t) == [empty |-> e, ago |-> a, layout |-> l, day |-> d, tod |-> t]

EmptyDateText == DateText(TRUE, FALSE, "bad", 0, 0)
AgoText == DateText(FALSE, TRUE, "bad", 0, 0)
BadDateText == DateText(FALSE, FALSE, "bad", 0, 0)
ExactText(d, t) == DateText(FALSE, FALSE, "exact", d, t)
GenericText(d, t) == DateText(FALSE, FALSE, "generic", d, t)

format_close_date(date_str) ==
  IF date_str.empty THEN NoDate
  ELSE IF date_str.ago THEN Timestamp(Today, 0)
  ELSE IF date_str.layout = "exact" THEN Timestamp(date_str.day, date_str.tod)
  ELSE IF date_str.layout = "generic" THEN Timestamp(date_str.day, date_str.tod)
  ELSE NaT

(***************************************************************************)
(* parse_html_to_dataframe                                                 *)
(*                                                                         *)
(* A document is the list of its div elements that carry a class           *)
(* attribute. Of an element the model keeps what the function reads:       *)
(*   cls        the class attribute                                        *)
(*   typeCol    "nodiv": no type-column div; "nospan": the div without its *)
(*              span; "ok": both                                           *)
(*   assetInfo  "nodiv": no 'Asset info' div; "noclass": the div without   *)
(*              an asset-class element; else the asset class written       *)
(*   pl         the 'Profit/Loss' div: present or not, with its amount     *)
(*              paragraph or not, and the text of the paragraph            *)
(*   closeDate  the 'Close date' div, likewise                             *)
(* The Type, Asset Name, Asset Ticker and Percent columns are copied from  *)
(* the markup and read by no later step but the percent means, so rows     *)
(* keep Asset Class, Profit/Loss Amount and Close Date.                    *)
(***************************************************************************)
SubDiv(d, p, t) == [div |-> d, p |-> p, text |-> t]

Element(c, ty, a, pl, cd) == [cls |-> c, typeCol |-> ty, assetInfo |-> a, pl |-> pl, closeDate |-> cd]

Row(c, a, d) == [AssetClass |-> c, Amount |-> a, CloseDate |-> d]

Frame(c, r) == [columns |-> c, rows |-> r]

\* pd.DataFrame(): no columns, no rows.
EmptyFrame == Frame(FALSE, <<>>)

Returned(df) == [status |-> "returned", exc |-> "", df |-> df]
Raised(e) == [status |-> "raised", exc |-> e, df |-> EmptyFrame]
NoResult == [status |-> "none", exc |-> "", df |-> EmptyFrame]

\* soup.find_all('div', class_=pattern), in document order.
find_all(html) == SelectSeq(html, LAMBDA el : ClassMatches(el.cls))

\* Line 43: record.find(type column) is None when the div is absent, and
\* calling find on it raises AttributeError outside the try block.
TypeLookupRaises(record) == record.typeCol = "nodiv"

\* Line 49: the four components that must all be found.
AllComponents(record) ==
  /\ record.typeCol = "ok"
  /\ record.assetInfo # "nodiv"
  /\ record.pl.div
  /\ record.closeDate.div

\* Lines 63-71: the row built from a record with its four components.
row_data(record) ==
  Row(IF record.assetInfo = "noclass" THEN "Other" ELSE record.assetInfo,
      IF record.pl.p THEN clean_and_format_number(Str(record.pl.text)) ELSE None,
      IF record.closeDate.p THEN format_close_date(record.closeDate.text) ELSE NoDate)

\* Lines 41-74: the loop over the records. No call inside the try block
\* raises on the elements of this model, so the except branch skips nothing.
RECURSIVE ParseLoop(_, _)
ParseLoop(records, parsed_data) ==
  IF records = <<>> THEN [raised |-> FALSE, parsed_data |-> parsed_data]
  ELSE IF TypeLookupRaises(Head(records)) THEN [raised |-> TRUE, parsed_data |-> parsed_data]
  ELSE IF ~AllComponents(Head(records)) THEN ParseLoop(Tail(records), parsed_data)
  ELSE ParseLoop(Tail(records), Append(parsed_data, row_data(Head(records))))

\* Line 78: pd.to_datetime(column, errors='coerce') turns None into NaT.
CoerceDate(row) ==
  [row EXCEPT !.CloseDate = IF row.CloseDate.k = "ts" THEN row.CloseDate ELSE NaT]

CoerceDates(rows) == [i \in 1..Len(rows) |-> CoerceDate(rows[i])]

IsNa(x) == x.k \in {"None", "NaN", "NaT"}

\* Line 79: df.dropna(subset=['Close Date', 'Profit/Loss Amount']).
DropNaDateOnly(rows) == SelectSeq(rows, LAMBDA r : ~IsNa(r.CloseDate))

DropNa(rows) == SelectSeq(rows, LAMBDA r : ~IsNa(r.CloseDate) /\ ~IsNa(r.Amount))

parse_html_to_dataframe(html) ==
  LET records == find_all(html)
      loop == ParseLoop(records, <<>>)
  IN IF records = <<>> THEN Returned(EmptyFrame)
     ELSE IF loop.raised THEN Raised("AttributeError")
     \* pd.DataFrame([]) has no 'Close Date' column: line 78 raises KeyError.
     ELSE IF loop.parsed_data = <<>> THEN Raised("KeyError")
     ELSE Returned(Frame(TRUE, DropNa(CoerceDates(loop.parsed_data))))

\* Elements of the documents given to the parser: the well-formed trade row
\* and every element that differs from it in one place.
TradeRowClass == <<"flex", "border-grey-300", "border-b", "last-of-type:border-none">>
HeaderClass == <<"flex", "border-grey-300", "border-b">>

GoodPl == SubDiv(TRUE, TRUE, <<"$", "1">>)
GoodDate == SubDiv(TRUE, TRUE, ExactText(1, 1))
GoodElement == Element(TradeRowClass, "ok", "Stocks", GoodPl, GoodDate)

PlVariants ==
  {SubDiv(FALSE, FALSE, <<>>), SubDiv(TRUE, FALSE, <<>>)}
  \cup {SubDiv(TRUE, TRUE, t) : t \in {<<>>, <<"x">>, <<"-", "1">>, <<"0">>}}

DateVariants ==
  {SubDiv(FALSE, FALSE, EmptyDateText), SubDiv(TRUE, FALSE, EmptyDateText)}
  \cup {SubDiv(TRUE, TRUE, t) : t \in {EmptyDateText, AgoText, BadDateText, GenericText(2, 0)}}

ParseElements ==
  {GoodElement, [GoodElement EXCEPT !.cls = HeaderClass]}
  \cup {[GoodElement EXCEPT !.typeCol = t] : t \in {"nodiv", "nospan"}}
  \cup {[GoodElement EXCEPT !.assetInfo = a] : a \in {"nodiv", "noclass"}}
  \cup {[GoodElement EXCEPT !.pl = p] : p \in PlVariants}
  \cup {[GoodElement EXCEPT !.closeDate = d] : d \in DateVariants}

Documents == SeqsUpTo(ParseElements, MaxRecords)

(***************************************************************************)
(* get_exchange_rates and the conversion rate                              *)
(***************************************************************************)
Currencies == {"USD", "EUR", "JPY"}

NoMapping == [c \in {} |-> 0]

\* What get_exchange_rates returns: the 'data' mapping, or None.
RatesDict(f) == [k |-> "dict", data |-> f]
RatesNone == [k |-> "None", data |-> NoMapping]

\* What the currency service answers: a failure, or a mapping from currency
\* codes to rates. No answer of the model has a rate for JPY.
RateValues == {1, RateDen + 1}
Mappings == UNION {[D -> RateValues] : D \in SUBSET {"EUR"}}
Responses == {[ok |-> FALSE, data |-> NoMapping]} \cup {[ok |-> TRUE, data |-> f] : f \in Mappings}

\* Lines 86-93: any exception of the client becomes None.
get_exchange_rates(response) ==
  IF response.ok THEN RatesDict(response.data) ELSE RatesNone

\* Line 197, with the default of 0 in place of 1.
ConversionRateZeroDefault(rates, selected_currency) ==
  IF rates.k = "None" \/ DOMAIN rates.data = {} THEN 0
  ELSE IF selected_currency \in DOMAIN rates.data THEN rates.data[selected_currency]
  ELSE 0

\* Line 197: rates.get(selected_currency, 1) if rates else 1. None and the
\* empty mapping are falsy. The rate 1 is the integer RateDen.
ConversionRate(rates, selected_currency) ==
  IF rates.k = "None" \/ DOMAIN rates.data = {} THEN RateDen
  ELSE IF selected_currency \in DOMAIN rates.data THEN rates.data[selected_currency]
  ELSE RateDen

(***************************************************************************)
(* show_dashboard: filtering and metrics                                   *)
(***************************************************************************)
\* The date filter comparing the timestamp with the end date at midnight.
InDateRangeTimestamp(row, start_date, end_date) ==
  /\ row.CloseDate.day >= start_date
  /\ \/ row.CloseDate.day < end_date
     \/ row.CloseDate.day = end_date /\ row.CloseDate.tod = 0

\* Line 180: `Close Date`.dt.date >= @start_date & `Close Date`.dt.date <= @end_date
InDateRange(row, start_date, end_date) ==
  /\ row.CloseDate.day >= start_date
  /\ row.CloseDate.day <= end_date

\* Lines 179-181: df.query gives a new frame with the rows that pass.
FilterRows(rows, asset_class, start_date, end_date) ==
  SelectSeq(rows, LAMBDA r : r.AssetClass \in asset_class /\ InDateRange(r, start_date, end_date))

\* Lines 193 and 198: the selection with its "Converted P/L" column.
WithConverted(rows, conversion_rate) ==
  [i \in 1..Len(rows) |->
     [AssetClass |-> rows[i].AssetClass, Amount |-> rows[i].Amount,
      CloseDate |-> rows[i].CloseDate, Converted |-> rows[i].Amount.v * conversion_rate]]

RECURSIVE SumConverted(_)
SumConverted(rows) ==
  IF rows = <<>> THEN 0 ELSE Head(rows).Converted + SumConverted(Tail(rows))

RECURSIVE SumAmount(_)
SumAmount(rows) ==
  IF rows = <<>> THEN 0 ELSE Head(rows).Amount.v + SumAmount(Tail(rows))

\* The total summed over the unconverted column.
TotalProfitUnconverted(df_selection) == SumAmount(df_selection) * RateDen

\* Line 204.
TotalProfit(df_selection) == SumConverted(df_selection)

\* Line 211.
WinningTrades(df_selection) == SelectSeq(df_selection, LAMBDA r : r.Amount.v > 0)

\* Line 212.
LosingTrades(df_selection) == SelectSeq(df_selection, LAMBDA r : r.Amount.v <= 0)

\* The gross loss without abs().
GrossLossSigned(losing_trades) == SumConverted(losing_trades)

\* Line 217.
GrossLoss(losing_trades) ==
  LET total == SumConverted(losing_trades) IN IF total < 0 THEN 0 - total ELSE total

Ratio(n, d) == [inf |-> FALSE, num |-> n, den |-> d]
Infinity == [inf |-> TRUE, num |-> 0, den |-> 0]

\* Line 218.
ProfitFactor(gross_profit, gross_loss) ==
  IF gross_loss > 0 THEN Ratio(gross_profit, gross_loss) ELSE Infinity

\* Line 244: the sum of each close day.
DailyProfit(df_selection) ==
  [d \in {df_selection[i].CloseDate.day : i \in 1..Len(df_selection)} |->
     SumConverted(SelectSeq(df_selection, LAMBDA r : r.CloseDate.day = d))]

\* Line 266: the sum of each asset class.
AssetBreakdown(df_selection) ==
  [c \in {df_selection[i].AssetClass : i \in 1..Len(df_selection)} |->
     SumConverted(SelectSeq(df_selection, LAMBDA r : r.AssetClass = c))]

NoFilter == [asset_class |-> {}, selected_currency |-> "USD", start_date |-> 0, end_date |-> 0]

\* A run that stopped before line 179 computed nothing.
StoppedView(status, event, parsed) ==
  [status |-> status, event |-> event, parsed |-> parsed, filter |-> NoFilter,
   rate_calls |-> 0, rates |-> RatesNone, conversion_rate |-> 0,
   df_selection |-> <<>>, total_profit |-> 0, num_trades |-> 0,
   winning_trades |-> <<>>, losing_trades |-> <<>>, win_rate |-> Ratio(0, 1),
   gross_profit |-> 0, gross_loss |-> 0, profit_factor |-> Ratio(0, 1),
   daily_profit |-> NoMapping, asset_breakdown |-> NoMapping]

BlankView == StoppedView("none", "none", NoResult)

\* Lines 179-186: the selection is empty, the run stops at st.stop().
EmptySelectionView(event, parsed, w) ==
  [StoppedView("empty_selection", event, parsed) EXCEPT !.filter = w]

\* Lines 190-266 on a non-empty selection. st.secrets holds the API key, so
\* reading it on line 196 does not raise.
RenderedView(event, parsed, w, selection, response) ==
  LET usd == w.selected_currency = "USD"
      rates == IF usd THEN RatesNone ELSE get_exchange_rates(response)
      conversion_rate == IF usd THEN RateDen ELSE ConversionRate(rates, w.selected_currency)
      df_selection == WithConverted(selection, conversion_rate)
      winning_trades == WinningTrades(df_selection)
      losing_trades == LosingTrades(df_selection)
      gross_profit == SumConverted(winning_trades)
      gross_loss == GrossLoss(losing_trades)
  IN [status |-> "rendered", event |-> event, parsed |-> parsed, filter |-> w,
      rate_calls |-> IF usd THEN 0 ELSE 1, rates |-> rates,
      conversion_rate |-> conversion_rate,
      df_selection |-> df_selection,
      total_profit |-> TotalProfit(df_selection),
      num_trades |-> Len(df_selection),
      winning_trades |-> winning_trades, losing_trades |-> losing_trades,
      win_rate |-> Ratio(Len(winning_trades) * 100, Len(df_selection)),
      gross_profit |-> gross_profit, gross_loss |-> gross_loss,
      profit_factor |-> ProfitFactor(gross_profit, gross_loss),
      daily_profit |-> DailyProfit(df_selection),
      asset_breakdown |-> AssetBreakdown(df_selection)]

(***************************************************************************)
(* show_dashboard: the session                                             *)
(***************************************************************************)
FilterKeys == {"asset_class_filter", "currency_filter", "date_range_filter"}

\* st.session_state: its keys, the dataset under 'df' and the values of the
\* three widgets under their keys (NoFilter while those keys are absent).
Session(keys, df, widgets) == [keys |-> keys, df |-> df, widgets |-> widgets]

NoSession == Session({}, EmptyFrame, NoFilter)

\* Line 108 without the test of line 106.
StoreDfAlways(s, df) == Session(s.keys \cup {"df"}, df, s.widgets)

\* Lines 106-108: only a frame with rows is stored.
StoreDf(s, df) ==
  IF df.rows # <<>> THEN Session(s.keys \cup {"df"}, df, s.widgets) ELSE s

\* Lines 102-113. An exception of the parser ends the run.
ProcessStage(s, clicked, pasted, html_input) ==
  IF ~clicked \/ ~pasted THEN [session |-> s, parsed |-> NoResult]
  ELSE LET parsed == parse_html_to_dataframe(html_input)
       IN [session |-> IF parsed.status = "returned" THEN StoreDf(s, parsed.df) ELSE s,
           parsed |-> parsed]

\* Lines 130-135: the filter keys and the dataset are deleted.
ResetSession(s) == Session(s.keys \ (FilterKeys \cup {"df"}), EmptyFrame, NoFilter)

Days(rows) == {rows[i].CloseDate.day : i \in 1..Len(rows)}

Min(S) == CHOOSE x \in S : \A y \in S : x <= y
Max(S) == CHOOSE x \in S : \A y \in S : x >= y

\* Lines 138-176: what the three widgets can return for a dataset: a subset
\* of its asset classes, a currency, and a complete range (both dates
\* picked) within its first and last close day.
WidgetValues(df) ==
  IF df.rows = <<>> THEN {NoFilter}
  ELSE {w \in [asset_class : SUBSET {df.rows[i].AssetClass : i \in 1..Len(df.rows)},
                selected_currency : Currencies,
                start_date : Min(Days(df.rows))..Max(Days(df.rows)),
                end_date : Min(Days(df.rows))..Max(Days(df.rows))] :
          w.start_date <= w.end_date}

\* Lines 138-176: the defaults of the widgets: every asset class, USD, the
\* whole span of close days.
DefaultWidgets(df) ==
  IF df.rows = <<>> THEN NoFilter
  ELSE [asset_class |-> {df.rows[i].AssetClass : i \in 1..Len(df.rows)},
        selected_currency |-> "USD",
        start_date |-> Min(Days(df.rows)),
        end_date |-> Max(Days(df.rows))]

\* What the widgets return in a run started by a button: the values held
\* under their keys where the dataset still allows them, or the defaults
\* (a widget whose options changed starts again from its default).
KeptWidgets(s) ==
  {DefaultWidgets(s.df)}
  \cup (IF FilterKeys \subseteq s.keys /\ s.widgets \in WidgetValues(s.df)
        THEN {s.widgets} ELSE {})

\* One run of the script, lines 96-301. event names the interaction that
\* started it; w is what the widgets return and response what the currency
\* service would answer.
show_dashboard(s, event, pasted, html_input, w, response) ==
  LET stage == ProcessStage(s, event = "process", pasted, html_input)
      s1 == stage.session
      selection == FilterRows(s1.df.rows, w.asset_class, w.start_date, w.end_date)
  IN IF stage.parsed.status = "raised"
       THEN [session |-> s, view |-> StoppedView("exception", event, stage.parsed)]
     ELSE IF "df" \notin s1.keys
       THEN [session |-> s1, view |-> StoppedView("no_data", event, stage.parsed)]
     ELSE IF event = "reset"
       \* st.rerun(): the next run finds no dataset and stops at line 119.
       THEN [session |-> ResetSession(s1), view |-> StoppedView("no_data", event, stage.parsed)]
     ELSE IF selection = <<>>
       THEN [session |-> Session(s1.keys \cup FilterKeys, s1.df, w),
             view |-> EmptySelectionView(event, stage.parsed, w)]
     ELSE [session |-> Session(s1.keys \cup FilterKeys, s1.df, w),
           view |-> RenderedView(event, stage.parsed, w, selection, response)]

(***************************************************************************)
(* Specifications.  Each one starts the variables of the others at rest.   *)
(***************************************************************************)
NumAtRest == text = None /\ num1 = None /\ num2 = None
FpAtRest == classAttr = <<>> /\ matched = FALSE
ParseAtRest == html_content = <<>> /\ result = NoResult
DashAtRest == session = NoSession /\ view = BlankView

\* --- the number normalizer applied to a text, then to its own output ---
InitNum ==
  /\ pc = "start"
  /\ text \in Texts
  /\ num1 = None /\ num2 = None
  /\ FpAtRest /\ ParseAtRest /\ DashAtRest

Normalize ==
  /\ pc = "start"
  /\ num1' = clean_and_format_number(text)
  /\ pc' = "once"
  /\ UNCHANGED <<text, num2, fpVars, parseVars, dashVars>>

Renormalize ==
  /\ pc = "once"
  /\ num2' = clean_and_format_number(num1)
  /\ pc' = "twice"
  /\ UNCHANGED <<text, num1, fpVars, parseVars, dashVars>>

NextNum == Normalize \/ Renormalize

SpecNum == InitNum /\ [][NextNum]_vars

\* --- find_all deciding on one div ---
InitFingerprint ==
  /\ pc = "start"
  /\ classAttr \in ClassAttrs
  /\ matched = FALSE
  /\ NumAtRest /\ ParseAtRest /\ DashAtRest

MatchClass ==
  /\ pc = "start"
  /\ matched' = ClassMatches(classAttr)
  /\ pc' = "done"
  /\ UNCHANGED <<classAttr, numVars, parseVars, dashVars>>

NextFingerprint == MatchClass

SpecFingerprint == InitFingerprint /\ [][NextFingerprint]_vars

\* --- parse_html_to_dataframe on one document ---
InitParse ==
  /\ pc = "start"
  /\ html_content \in Documents
  /\ result = NoResult
  /\ NumAtRest /\ FpAtRest /\ DashAtRest

Parse ==
  /\ pc = "start"
  /\ result' = parse_html_to_dataframe(html_content)
  /\ pc' = "done"
  /\ UNCHANGED <<html_content, numVars, fpVars, dashVars>>

NextParse == Parse

SpecParse == InitParse /\ [][NextParse]_vars

\* --- one run of the script on a stored dataset ---
\* Every non-empty sequence of rows with an amount and a close date is the
\* result of parsing some document, so each is a dataset a session can hold.
MetricClasses == {"Stocks", "Other"}
MetricAmounts == {0 - 1, 0, 2}
MetricDates == {Timestamp(1, 1), Timestamp(2, 0), Timestamp(2, 1)}
TypedRows == {Row(c, Num(a), d) : c \in MetricClasses, a \in MetricAmounts, d \in MetricDates}
Datasets == {Frame(TRUE, rows) : rows \in SeqsUpTo(TypedRows, MaxRows) \ {<<>>}}

\* The script run with the given interaction: the session and the view after
\* it. edited says whether the interaction was a change of the widgets, which
\* then return any value they allow. The currency service is asked only on
\* the path through line 196.
RunScript(event, pasted, html_input, edited) ==
  LET stage == ProcessStage(session, event = "process", pasted, html_input)
  IN \E w \in IF edited THEN WidgetValues(stage.session.df) ELSE KeptWidgets(stage.session) :
       \E response \in IF w.selected_currency = "USD" THEN {[ok |-> FALSE, data |-> NoMapping]}
                       ELSE Responses :
          LET run == show_dashboard(session, event, pasted, html_input, w, response)
          IN session' = run.session /\ view' = run.view

InitMetrics ==
  /\ pc = "start"
  /\ session \in {Session({"df"}, df, NoFilter) : df \in Datasets}
  /\ view = BlankView
  /\ NumAtRest /\ FpAtRest /\ ParseAtRest

Compute ==
  /\ pc = "start"
  /\ RunScript("rerun", FALSE, <<>>, TRUE)
  /\ pc' = "done"
  /\ UNCHANGED <<numVars, fpVars, parseVars>>

NextMetrics == Compute

SpecMetrics == InitMetrics /\ [][NextMetrics]_vars

\* --- a session: any sequence of interactions, each followed by a run ---
SessionElements ==
  {Element(TradeRowClass, "ok", "Stocks", SubDiv(TRUE, TRUE, <<"-", "1">>), SubDiv(TRUE, TRUE, ExactText(1, 1))),
   Element(TradeRowClass, "ok", "noclass", SubDiv(TRUE, TRUE, <<"$", "1", "0">>), SubDiv(TRUE, TRUE, GenericText(2, 0))),
   Element(TradeRowClass, "ok", "Stocks", SubDiv(TRUE, TRUE, <<"0">>), SubDiv(TRUE, TRUE, AgoText)),
   [GoodElement EXCEPT !.pl = SubDiv(TRUE, TRUE, <<"x">>)],
   [GoodElement EXCEPT !.typeCol = "nodiv"]}
SessionDocuments == SeqsUpTo(SessionElements, MaxPaste)

InitSession ==
  /\ pc = "session"
  /\ session = NoSession
  /\ view = BlankView
  /\ NumAtRest /\ FpAtRest /\ ParseAtRest

\* The 'Process HTML' button, with or without text in the text area.
ClickProcess ==
  /\ pc = "session"
  /\ \E pasted \in BOOLEAN, html_input \in SessionDocuments :
       /\ ~pasted => html_input = <<>>
       /\ RunScript("process", pasted, html_input, FALSE)
  /\ UNCHANGED <<pc, numVars, fpVars, parseVars>>

\* The 'Reset All Filters' button, which the script shows once a dataset is held.
ClickReset ==
  /\ pc = "session"
  /\ "df" \in session.keys
  /\ RunScript("reset", FALSE, <<>>, FALSE)
  /\ UNCHANGED <<pc, numVars, fpVars, parseVars>>

\* Any other interaction (a filter, the currency, the date range, the text
\* area): the script runs again with what the widgets now return.
Rerun ==
  /\ pc = "session"
  /\ RunScript("rerun", FALSE, <<>>, TRUE)
  /\ UNCHANGED <<pc, numVars, fpVars, parseVars>>

NextSession == ClickProcess \/ ClickReset \/ Rerun

SpecSession == InitSession /\ [][NextSession]_vars

(***************************************************************************)
(* Properties.                                                             *)
(***************************************************************************)
\* What the specification says of a candidate record, stated on the markup.
FourRegions(el) ==
  <<el.typeCol = "ok", el.assetInfo # "nodiv", el.pl.div, el.closeDate.div>>

RegionsMissing(el) == Cardinality({n \in 1..4 : ~FourRegions(el)[n]})

AmountParses(el) == el.pl.div /\ el.pl.p /\ clean_and_format_number(Str(el.pl.text)).k = "num"

DateParses(el) == el.closeDate.div /\ el.closeDate.p /\ format_close_date(el.closeDate.text).k = "ts"

WellFormed(el) == RegionsMissing(el) = 0 /\ AmountParses(el) /\ DateParses(el)

Candidates == find_all(html_content)

CountOf(s, Test(_)) == Cardinality({i \in 1..Len(s) : Test(s[i])})

MapSeq(s, Op(_)) == [i \in 1..Len(s) |-> Op(s[i])]

\* C1: a document whose candidate records are N >= 1 well-formed ones and
\* one that lacks exactly one of the four required sub-regions, wherever it
\* sits, is parsed without an exception into exactly N rows.
C1_FaultIsolation ==
  (/\ pc = "done"
   /\ Len(Candidates) >= 2
   /\ CountOf(Candidates, LAMBDA el : RegionsMissing(el) = 1) = 1
   /\ CountOf(Candidates, WellFormed) = Len(Candidates) - 1)
  => /\ result.status = "returned"
     /\ Len(result.df.rows) = Len(Candidates) - 1

\* C2: the parser never raises, and when no candidate record yields a row
\* (none found, all incomplete, or all lacking a required field) it returns
\* an empty dataset.
C2_EmptyNotError ==
  pc = "done" =>
    /\ result.status = "returned"
    /\ CountOf(Candidates, WellFormed) = 0 => result.df.rows = <<>>

\* C3: the rows the parser returns are those of the complete candidate
\* records whose amount and close date both parse, in document order, and
\* every returned row has both fields present.
C3_RequiredFields ==
  (pc = "done" /\ result.status = "returned") =>
    LET kept == SelectSeq(Candidates, WellFormed)
    IN /\ Len(result.df.rows) = Len(kept)
       /\ \A i \in 1..Len(kept) :
            /\ result.df.rows[i].Amount = clean_and_format_number(Str(kept[i].pl.text))
            /\ result.df.rows[i].CloseDate = format_close_date(kept[i].closeDate.text)
            /\ result.df.rows[i].Amount.k = "num"
            /\ result.df.rows[i].CloseDate.k = "ts"

\* C3 witness: three complete candidate records, one dropped for a missing
\* required field, the two others returned in their order with different
\* values.
C3_Witness ==
  /\ pc = "done" /\ result.status = "returned"
  /\ Len(Candidates) = 3
  /\ \A i \in 1..3 : RegionsMissing(Candidates[i]) = 0
  /\ Len(result.df.rows) = 2
  /\ result.df.rows[1] # result.df.rows[2]

\* The row of the dataset a row of the selection comes from.
Unconverted(r) == Row(r.AssetClass, r.Amount, r.CloseDate)

Passes(r, w) ==
  /\ r.AssetClass \in w.asset_class
  /\ w.start_date <= r.CloseDate.day
  /\ r.CloseDate.day <= w.end_date

Filtered == view.status \in {"rendered", "empty_selection"}

\* C4: the filtered set holds exactly the rows of the dataset whose asset
\* class is allowed and whose close day lies in [start, end]: every selected
\* row passes, is a row of the dataset, and as many rows are selected as pass.
C4_FilterCorrectness ==
  (pc = "done" /\ Filtered) =>
    /\ \A i \in 1..Len(view.df_selection) :
         /\ Passes(view.df_selection[i], view.filter)
         /\ Unconverted(view.df_selection[i]) \in Range(session.df.rows)
    /\ Len(view.df_selection) = CountOf(session.df.rows, LAMBDA r : Passes(r, view.filter))
    /\ \A r \in Range(session.df.rows) :
         Passes(r, view.filter) => \E i \in 1..Len(view.df_selection) : Unconverted(view.df_selection[i]) = r

\* C4 witness: of two rows one is excluded, and the one kept closed on the
\* end date later than midnight.
C4_Witness ==
  /\ pc = "done" /\ view.status = "rendered"
  /\ Len(session.df.rows) = 2 /\ Len(view.df_selection) = 1
  /\ view.df_selection[1].CloseDate.day = view.filter.end_date
  /\ view.df_selection[1].CloseDate.tod = 1

RECURSIVE SumWhere(_, _, _)
SumWhere(rows, sign, i) ==
  IF i > Len(rows) THEN 0
  ELSE (IF (sign = "win") = (rows[i].Amount.v > 0) THEN rows[i].Converted ELSE 0)
       + SumWhere(rows, sign, i + 1)

Abs(n) == IF n < 0 THEN 0 - n ELSE n

\* C5: on a non-empty filtered set the profit factor is the converted sum of
\* the rows with P/L > 0 over the absolute converted sum of the rows with
\* P/L <= 0, and +infinity when that denominator is 0; on an empty filtered
\* set the run stops with the empty result and computes no metric.
C5_ProfitFactor ==
  pc = "done" =>
    /\ CountOf(session.df.rows, LAMBDA r : Passes(r, view.filter)) = 0
         => view.status = "empty_selection" /\ view.num_trades = 0 /\ view.profit_factor = Ratio(0, 1)
    /\ view.status = "rendered" =>
         LET num == SumWhere(view.df_selection, "win", 1)
             den == Abs(SumWhere(view.df_selection, "loss", 1))
         IN IF den = 0 THEN view.profit_factor = Infinity
            ELSE /\ ~view.profit_factor.inf
                 /\ view.profit_factor.den # 0
                 /\ view.profit_factor.num * den = num * view.profit_factor.den

\* C5 witness: a winning row and a row with zero P/L: the denominator is 0
\* though a non-winning row exists.
C5_Witness ==
  /\ pc = "done" /\ view.status = "rendered"
  /\ view.winning_trades # <<>> /\ view.losing_trades # <<>>
  /\ view.profit_factor = Infinity

\* The run on the same dataset and filter with no conversion (USD).
NoConversionRun ==
  show_dashboard(Session({"df"}, session.df, NoFilter), "rerun", FALSE, <<>>,
                 [view.filter EXCEPT !.selected_currency = "USD"],
                 [ok |-> FALSE, data |-> NoMapping]).view

\* C6: with any conversion factor the winning rows (P/L > 0), the losing rows
\* (P/L <= 0) and the win rate are those of the run without conversion, and
\* the total, gross profit, gross loss, daily and per-class sums are those of
\* that run multiplied by the factor.
C6_CurrencyInvariance ==
  (pc = "done" /\ view.status = "rendered") =>
    LET base == NoConversionRun
        f == view.conversion_rate
    IN /\ base.status = "rendered"
       /\ MapSeq(view.winning_trades, Unconverted) = MapSeq(base.winning_trades, Unconverted)
       /\ MapSeq(view.losing_trades, Unconverted) = MapSeq(base.losing_trades, Unconverted)
       /\ \A i \in 1..Len(view.winning_trades) : view.winning_trades[i].Amount.v > 0
       /\ \A i \in 1..Len(view.losing_trades) : view.losing_trades[i].Amount.v <= 0
       /\ view.win_rate = base.win_rate
       /\ view.total_profit * RateDen = f * base.total_profit
       /\ view.gross_profit * RateDen = f * base.gross_profit
       /\ view.gross_loss * RateDen = f * base.gross_loss
       /\ DOMAIN view.daily_profit = DOMAIN base.daily_profit
       /\ \A d \in DOMAIN view.daily_profit : view.daily_profit[d] * RateDen = f * base.daily_profit[d]
       /\ DOMAIN view.asset_breakdown = DOMAIN base.asset_breakdown
       /\ \A c \in DOMAIN view.asset_breakdown : view.asset_breakdown[c] * RateDen = f * base.asset_breakdown[c]

\* C6 witness: a factor other than 1 applied to a set with a winning and a
\* losing row and a non-zero total.
C6_Witness ==
  /\ pc = "done" /\ view.status = "rendered"
  /\ view.conversion_rate # RateDen
  /\ view.winning_trades # <<>> /\ view.losing_trades # <<>>
  /\ view.total_profit # 0

AllAtFaceValue ==
  \A i \in 1..Len(view.df_selection) :
     view.df_selection[i].Converted = view.df_selection[i].Amount.v * RateDen

\* C9: with a currency other than USD selected, when get_exchange_rates
\* returns no mapping or a mapping without that currency, the factor is 1 and
\* Converted P/L equals Profit/Loss Amount on every filtered row, and the
\* metrics are computed; with USD selected the service is not called and
\* Converted P/L equals Profit/Loss Amount.
C9_RateFallback ==
  pc = "done" =>
    /\ (/\ view.status = "rendered"
        /\ view.filter.selected_currency # "USD"
        /\ (view.rates.k = "None" \/ view.filter.selected_currency \notin DOMAIN view.rates.data))
         => /\ view.rate_calls = 1
            /\ view.conversion_rate = RateDen
            /\ AllAtFaceValue
            /\ view.total_profit = SumAmount(view.df_selection) * RateDen
    /\ (view.status = "rendered" /\ view.filter.selected_currency = "USD")
         => view.rate_calls = 0 /\ AllAtFaceValue
    /\ CountOf(session.df.rows, LAMBDA r : Passes(r, view.filter)) > 0 => view.status = "rendered"

\* C9 witness: the service answered with rates, none of them for the selected
\* currency, and the selection has a non-zero amount.
C9_Witness ==
  /\ pc = "done" /\ view.status = "rendered"
  /\ view.filter.selected_currency = "JPY"
  /\ view.rates.k = "dict" /\ DOMAIN view.rates.data # {}
  /\ view.total_profit # 0

HoldsDf(s) == "df" \in s.keys

\* C10 as stated: the dataset of the session is set only by an extraction run,
\* which replaces it with the run's result, and no other interaction removes
\* or alters it.
C10_SetOnlyByExtraction ==
  [][IF view'.event = "process" /\ view'.parsed.status = "returned"
       THEN HoldsDf(session') /\ session'.df = view'.parsed.df
       ELSE session'.df = session.df /\ HoldsDf(session') = HoldsDf(session)]_vars

\* C10 amended: an extraction run that returns at least one row replaces the
\* dataset with its result; Reset All Filters deletes the dataset and the
\* filter keys; every other run (an extraction that returns no row or raises,
\* a change of filter, currency or date range with its metrics) leaves the
\* dataset as it was.
C10_Lifecycle ==
  [][IF view'.event = "process" /\ view'.parsed.status = "returned" /\ view'.parsed.df.rows # <<>>
       THEN HoldsDf(session') /\ session'.df = view'.parsed.df
     ELSE IF view'.event = "reset"
       THEN ~HoldsDf(session') /\ session'.keys \cap FilterKeys = {}
     ELSE session'.df = session.df /\ HoldsDf(session') = HoldsDf(session)]_vars

\* C10 witness: a rerun that converted and summed a selection of the held
\* dataset.
C10_Witness ==
  /\ pc = "session" /\ view.event = "rerun" /\ view.status = "rendered"
  /\ HoldsDf(session)
  /\ view.conversion_rate # RateDen
  /\ view.total_profit # 0

\* C7: whenever the normalizer returns a number for a text, normalizing that
\* number returns the same number; and it returns the missing-value marker,
\* None or NaN, where it returns no number.
C7_Idempotent ==
  /\ pc = "twice" /\ num1.k = "num" => num2 = num1
  /\ pc # "start" => num1.k \in {"num", "None", "NaN"}

\* C8: a div is selected exactly when its class attribute has every token of
\* the fingerprint, in whatever order and with whatever other tokens.
C8_OrderIndependent ==
  pc = "done" => (matched <=> \A n \in 1..3 : Fingerprint[n] \in Range(classAttr))

=============================================================================
